---- MODULE Spec2Model ----
(***************************************************************************)
(* Model of the markmap-mcp per-agent storage subsystem: the identifier    *)
(* sanitizer and artifact writer of lib/storage.ts, the path guard of      *)
(* tools/renderFile.ts and the three tool handlers customizeTool,          *)
(* renderFileTool and fromOutlineTool.                                     *)
(*                                                                         *)
(* Strings are sequences of tokens.  A token is a single character ("a",   *)
(* "/", ".", a digit ...) or a fixed literal of the program or of the      *)
(* environment that is never split ("customize", "svg", "opt").  No token  *)
(* is a prefix of another one, so a string is a character prefix of        *)
(* another exactly when its token sequence is a prefix of the other's.     *)
(***************************************************************************)
EXTENDS Integers, Sequences, FiniteSets, TLC

\* ------------------------------------------------------------------ bounds

\* longest identifier the sanitizer specification enumerates
MaxIdLen == 3
\* largest value of the millisecond clock (Date.now())
MaxClock == 2
\* number of tool invocations in one behaviour
MaxCalls == 2

\* --------------------------------------------------------- character sets

Letters == {"a", "b", "e"}
Digits == {"0", "1", "2", "3", "4", "5", "6", "7", "8", "9"}
Whitespace == {" "}
\* the characters identifiers are drawn from: letters, a dot, a slash,
\* a symbol and a blank
IdChars == {"a", "b", ".", "/", "@", " "}

DigitChar == <<"0", "1", "2", "3", "4", "5", "6", "7", "8", "9">>

\* all strings over a character set, up to a length
StringsUpTo(chars, n) == UNION {[1..k -> chars] : k \in 0..n}

\* String.prototype.startsWith
startsWith(s, prefix) ==
    /\ Len(prefix) <= Len(s)
    /\ SubSeq(s, 1, Len(prefix)) = prefix

\* String.prototype.trim: whitespace removed at both ends
RECURSIVE TrimLeft(_)
TrimLeft(s) ==
    IF s = <<>> THEN <<>>
    ELSE IF Head(s) \in Whitespace THEN TrimLeft(Tail(s))
    ELSE s

RECURSIVE TrimRight(_)
TrimRight(s) ==
    IF s = <<>> THEN <<>>
    ELSE IF s[Len(s)] \in Whitespace THEN TrimRight(SubSeq(s, 1, Len(s) - 1))
    ELSE s

trim(s) == TrimRight(TrimLeft(s))

\* Number.prototype.toString of a non-negative integer, in decimal
RECURSIVE ToStr(_)
ToStr(n) ==
    IF n < 10 THEN <<DigitChar[n + 1]>>
    ELSE ToStr(n \div 10) \o <<DigitChar[(n % 10) + 1]>>

\* -------------------------------------------------- identifier sanitizer

\* the character class [a-zA-Z0-9._-]
IdCharAllowed(c) == c \in Letters \cup Digits \cup {".", "_", "-"}

\* the replace without its g flag: only the first match is dropped
StripFirstDisallowed(s) ==
    LET bad == {j \in 1..Len(s) : ~IdCharAllowed(s[j])}
        first == CHOOSE j \in bad : \A k \in bad : j <= k
    IN  IF bad = {} THEN s
        ELSE SubSeq(s, 1, first - 1) \o SubSeq(s, first + 1, Len(s))

\* agentId.replace(/[^a-zA-Z0-9._-]/g, ''): a left-to-right scan that drops
\* every match of the negated class
RECURSIVE StripDisallowed(_)
StripDisallowed(s) ==
    IF s = <<>> THEN <<>>
    ELSE IF IdCharAllowed(Head(s)) THEN <<Head(s)>> \o StripDisallowed(Tail(s))
    ELSE StripDisallowed(Tail(s))

\* sanitizeAgentId without its check of the stripped result
sanitizeAgentIdUnchecked(agentId) ==
    IF agentId = <<>> \/ Len(trim(agentId)) = 0
    THEN [threw |-> TRUE, value |-> <<>>, message |-> "agent_id cannot be empty"]
    ELSE [threw |-> FALSE, value |-> StripDisallowed(agentId), message |-> ""]

\* sanitizeAgentId: the value returned, or the error thrown
sanitizeAgentId(agentId) ==
    IF agentId = <<>> \/ Len(trim(agentId)) = 0
    THEN [threw |-> TRUE, value |-> <<>>, message |-> "agent_id cannot be empty"]
    ELSE LET sanitized == StripDisallowed(agentId)
         IN  IF Len(sanitized) = 0
             THEN [threw |-> TRUE, value |-> <<>>,
                   message |-> "agent_id contains no valid characters"]
             ELSE [threw |-> FALSE, value |-> sanitized, message |-> ""]

\* ------------------------------------------------------------------ paths

\* MARKMAP_STORAGE_ROOT: /opt/out
MARKMAP_STORAGE_ROOT == <<"/", "opt", "/", "out">>

\* the segments of a path between its separators
RECURSIVE Split(_)
Split(s) ==
    IF s = <<>> THEN << <<>> >>
    ELSE LET rest == Split(Tail(s))
         IN  IF Head(s) = "/" THEN << <<>> >> \o rest
             ELSE << <<Head(s)>> \o Head(rest) >> \o Tail(rest)

\* normalizeString of an absolute path: empty and "." segments are dropped,
\* ".." removes the segment before it and is dropped at the root
RECURSIVE NormalizeSegs(_, _)
NormalizeSegs(segs, acc) ==
    IF segs = <<>> THEN acc
    ELSE LET seg == Head(segs)
         IN  IF seg = <<>> \/ seg = <<".">> THEN NormalizeSegs(Tail(segs), acc)
             ELSE IF seg = <<".", ".">>
                  THEN NormalizeSegs(Tail(segs),
                                     IF acc = <<>> THEN acc
                                     ELSE SubSeq(acc, 1, Len(acc) - 1))
                  ELSE NormalizeSegs(Tail(segs), Append(acc, seg))

RECURSIVE JoinSegs(_)
JoinSegs(segs) ==
    IF segs = <<>> THEN <<>>
    ELSE IF Len(segs) = 1 THEN Head(segs)
    ELSE Head(segs) \o <<"/">> \o JoinSegs(Tail(segs))

isAbsolute(p) == p # <<>> /\ Head(p) = "/"

\* path.resolve of an absolute path: normalized, no trailing separator
ResolveAbs(p) == <<"/">> \o JoinSegs(NormalizeSegs(Split(p), <<>>))

\* path.resolve(p) in a process whose working directory is cwd
resolve(cwd, p) ==
    IF isAbsolute(p) THEN ResolveAbs(p)
    ELSE ResolveAbs(cwd \o <<"/">> \o p)

\* path.join(a, b) for an absolute a and a non-empty b: the two joined by a
\* separator and normalized; a trailing separator is kept
join(a, b) ==
    LET joined == a \o <<"/">> \o b
        body == JoinSegs(NormalizeSegs(Split(joined), <<>>))
    IN  IF body # <<>> /\ joined[Len(joined)] = "/"
        THEN <<"/">> \o body \o <<"/">>
        ELSE <<"/">> \o body

\* the directory ensureAgentDir computes and creates for an accepted id
AgentDirOf(sanitized) == join(MARKMAP_STORAGE_ROOT, sanitized)

\* q is p itself or lies below the directory p (both resolved)
IsWithin(q, p) ==
    \/ q = p
    \/ startsWith(q, IF p = <<"/">> THEN p ELSE p \o <<"/">>)

\* q lies strictly below the directory p
IsProperDescendant(q, p) == q # p /\ IsWithin(q, p)


\* every directory on the way from the root to the directory p, p included
AncestorsOf(p) ==
    {<<"/">>} \cup {SubSeq(p, 1, i) : i \in {j \in 1..Len(p) : j = Len(p) \/ p[j + 1] = "/"}}

\* path.dirname of a resolved path
dirname(p) ==
    LET seps == {j \in 1..Len(p) : p[j] = "/"}
        last == CHOOSE j \in seps : \A k \in seps : k <= j
    IN  IF seps = {} THEN <<".">>
        ELSE IF last = 1 THEN <<"/">>
        ELSE SubSeq(p, 1, last - 1)

\* path.extname: from the last dot of the last segment, when that dot is not
\* the segment's first character
extname(p) ==
    LET segs == Split(p)
        base == segs[Len(segs)]
        dots == {j \in 1..Len(base) : base[j] = "."}
        last == CHOOSE j \in dots : \A k \in dots : k <= j
    IN  IF dots = {} \/ last = 1 THEN <<>>
        ELSE SubSeq(base, last, Len(base))

\* String.prototype.toLowerCase
toLowerCase(s) == [i \in 1..Len(s) |-> IF s[i] = "MD" THEN "md" ELSE s[i]]

\* ------------------------------------------------------------- path guard

\* validateFilePath(filePath, agentId) in a process whose working directory
\* is cwd: whether the path is accepted, and what the function joined onto
\* the storage root on the way.  An agentId that is undefined or "" is the
\* empty string here (both are falsy)
validateFilePathRun(cwd, filePath, agentId) ==
    LET resolved == resolve(cwd, filePath)
        cwdResolved == ResolveAbs(cwd)
    IN  IF startsWith(resolved, cwdResolved)
        THEN [accepted |-> TRUE, joined |-> {}]
        ELSE IF agentId # <<>>
             THEN LET sanitized == StripDisallowed(agentId)
                  IN  IF Len(sanitized) > 0
                      THEN [accepted |->
                                startsWith(resolved,
                                    ResolveAbs(join(MARKMAP_STORAGE_ROOT, sanitized))),
                            joined |-> {sanitized}]
                      ELSE [accepted |-> FALSE, joined |-> {}]
             ELSE [accepted |-> FALSE, joined |-> {}]

validateFilePath(cwd, filePath, agentId) ==
    validateFilePathRun(cwd, filePath, agentId).accepted

\* ------------------------------------------------------------ environment

\* Markdown documents: a sequence of runs of equal lines, each line a
\* heading or list item of a level from 1 on, or a line of plain text
\* (level 0), with a text of one character
Line(level, text, times) == [level |-> level, text |-> text, times |-> times]

Doc1 == << Line(1, "A", 1) >>
Doc2 == << Line(1, "A", 1), Line(2, "B", 1) >>
BlankDoc == << Line(0, " ", 1) >>
EmptyDoc == <<>>

\* a heading and 2MB of body text; a heading and 6MB of body text
Doc2MB == << Line(1, "A", 1), Line(0, "A", 1024 * 1024) >>
Doc6MB == << Line(1, "A", 1), Line(0, "A", 3 * 1024 * 1024) >>
\* 10,000 headings; 10,001 headings; a list item nested 21 deep
Doc10000 == << Line(1, "A", 10000) >>
Doc10001 == << Line(1, "A", 10001) >>
DocDeep == << Line(1, "A", 1), Line(21, "B", 1) >>

\* the length of a document in bytes: per line its markers and a blank,
\* its text and the line end
RECURSIVE byteLength(_)
byteLength(md) ==
    IF md = <<>> THEN 0
    ELSE LET l == Head(md)
             markers == IF l.level > 0 THEN l.level + 1 ELSE 0
         IN  l.times * (markers + 2) + byteLength(Tail(md))

\* countNodes(root): the headings and list items of the parsed document
RECURSIVE countNodes(_)
countNodes(md) ==
    IF md = <<>> THEN 0
    ELSE (IF Head(md).level > 0 THEN Head(md).times ELSE 0) + countNodes(Tail(md))

\* calculateDepth(root): the greatest level reached
RECURSIVE calculateDepth(_)
calculateDepth(md) ==
    IF md = <<>> THEN 0
    ELSE LET rest == calculateDepth(Tail(md))
         IN  IF Head(md).level > rest THEN Head(md).level ELSE rest

\* markdown.trim().length === 0
IsBlankDoc(md) == \A i \in 1..Len(md) : md[i].level = 0 /\ md[i].text = " "

\* what a file holds: its kind, the Markdown it was made from, and what else
\* went into it (the theme and colours of a graphic, the title of a page)
Content(kind, md, extra) == [kind |-> kind, md |-> md, extra |-> extra]
NoContent == Content("none", <<>>, <<>>)

\* the working directories a server process may run in
ProcessCwds == { <<"/", "a">> }

\* the file system the process starts with: the storage root exists
\* (initStorageRoot), a Markdown file in the working directory, one in a
\* sibling directory whose name extends the working directory's, one in an
\* unrelated tree, and a symbolic link to it inside the working directory
InitDirs ==
    { <<"/">>, <<"/", "a">>, <<"/", "a", "b">>, <<"/", "x">>, <<"/", "opt">>,
      MARKMAP_STORAGE_ROOT }
InitFiles ==
    ( <<"/", "a", "/", "n", ".", "md">> :> Content("md", Doc1, <<>>) ) @@
    ( <<"/", "a", "b", "/", "s", ".", "md">> :> Content("md", Doc2, <<>>) ) @@
    ( <<"/", "x", "/", "p", ".", "md">> :> Content("md", Doc2, <<>>) ) @@
    ( <<"/", "a", "/", "h", ".", "md">> :> Content("md", Doc6MB, <<>>) ) @@
    ( <<"/", "a", "/", "u", ".", "MD">> :> Content("md", Doc1, <<>>) )
Symlinks ==
    ( <<"/", "a", "/", "l", ".", "md">> :> <<"/", "x", "/", "p", ".", "md">> )

\* the file an open() of a resolved path reaches
Realpath(p) == IF p \in DOMAIN Symlinks THEN Symlinks[p] ELSE p

\* an access to the file system: the resolved path asked for and the file
\* reached
Access(p) == [path |-> p, target |-> Realpath(p)]

\* the concurrent tool invocations (async tasks of the one process)
Tasks == {"t1", "t2"}

\* ----------------------------------------------------------------- state

VARIABLES
    cwd,      \* process.cwd()
    clock,    \* Date.now(), in milliseconds
    dirs,     \* the directories that exist
    files,    \* the regular files that exist, with their content
    stable,   \* the files as stable storage holds them (what was fsynced)
    task,     \* per task: the invocation it runs and where it is suspended
    hist,     \* per invocation, in order of start: what it did and returned
    fnIn,     \* the arguments of the function under check
    fnOut     \* what it returned

vars == <<cwd, clock, dirs, files, stable, task, hist, fnIn, fnOut>>

NoArgs == [agentId |-> <<>>, filePath |-> <<>>]
NoResult ==
    [stage |-> "none", threw |-> FALSE, value |-> <<>>, dir |-> <<>>,
     tool |-> "", error |-> [errorType |-> "", text |-> ""], accepted |-> FALSE]

IdleTask ==
    [pc |-> "idle", op |-> 0, tool |-> "", agent_id |-> <<>>, md |-> <<>>,
     svg |-> NoContent, dir |-> <<>>, file_path |-> <<>>, output_path |-> <<>>,
     theme |-> "none", colors |-> <<>>, custom |-> FALSE]

\* the record of one invocation
OpRecord(tool, agent_id) ==
    [tool |-> tool, agent_id |-> agent_id, status |-> "running", errorType |-> "",
     text |-> "", joined |-> {}, dir |-> <<>>, saved |-> {}, stamp |-> 0,
     reads |-> {}, legacy |-> {}, writes |-> {}, mkdirs |-> {}, engine |-> 0,
     md |-> <<>>, theme |-> "none", color_scheme |-> [given |-> FALSE, colors |-> <<>>],
     colors_used |-> <<>>, outline_items |-> <<>>, fault |-> "",
     parsed |-> FALSE, node_count |-> 0, depth |-> 0, size |-> 0,
     file_path |-> <<>>, raced |-> FALSE]

\* an error response: isError, the errorType tag and the text
ToolError(errorType, text) == [errorType |-> errorType, text |-> text]
NoError == ToolError("", "")

\* an invocation that returns an error response before it suspends
Rejected(tool, agent_id, err) ==
    [OpRecord(tool, agent_id) EXCEPT !.status = "error",
                                     !.errorType = err.errorType, !.text = err.text]

\* a running invocation that ends without the error-kind tag
FailedUntagged(h, op, errorType, text, fault) ==
    [h EXCEPT ![op].status = "error", ![op].text = text, ![op].fault = fault]

\* a running invocation whose catch block returns an error response
Failed(h, op, errorType, text, fault) ==
    [h EXCEPT ![op].status = "error", ![op].errorType = errorType,
              ![op].text = text, ![op].fault = fault]

Init ==
    /\ cwd \in ProcessCwds
    /\ clock = 1
    /\ dirs = InitDirs
    /\ files = InitFiles
    /\ stable = InitFiles
    /\ task = [t \in Tasks |-> IdleTask]
    /\ hist = <<>>
    /\ fnIn = NoArgs
    /\ fnOut = NoResult

\* the clock advances between any two steps
Tick ==
    /\ clock < MaxClock
    /\ clock' = clock + 1
    /\ UNCHANGED <<cwd, dirs, files, stable, task, hist, fnIn, fnOut>>

\* ---------------------------------------------------------- render engine

\* MarkmapHandler.applyCustomization: the graphic of a document under a theme
\* and an optional palette
RECURSIVE Flatten(_)
Flatten(ss) == IF ss = <<>> THEN <<>> ELSE Head(ss) \o Flatten(Tail(ss))

applyCustomization(md, theme, color_scheme) ==
    Content("svg", md, <<theme>> \o Flatten(color_scheme.colors))

\* MarkmapHandler.renderToSVG
renderToSVG(md) == Content("svg", md, <<>>)

\* --------------------------------------------------------- artifact writer

\* generateHtml(markdownContent, title)
generateHtml(md, title) == Content("html", md, title)

\* fs.writeFile: create or truncate the file and write; nothing is synced
writeFile(fs, filePath, content) ==
    [q \in DOMAIN fs \cup {Realpath(filePath)} |->
        IF q = Realpath(filePath) THEN content ELSE fs[q]]

\* writeFileSync: open with 'w' (create or truncate), write, fsync, close.
\* Applied to the files it gives what the process sees, applied to the
\* stable storage what the fsync put there
writeFileSync(fs, filePath, content) ==
    [q \in DOMAIN fs \cup {Realpath(filePath)} |->
        IF q = Realpath(filePath) THEN content ELSE fs[q]]

\* fs.mkdir(dir, {recursive: true}): the directory and its missing parents
mkdirRecursive(ds, dir) == ds \cup AncestorsOf(dir)

\* fs.mkdir without the recursive option: it also rejects a directory that
\* exists
mkdirRejectsExisting(fs, dir) == dir \in dirs \/ \E q \in AncestorsOf(dir) : q \in DOMAIN fs

\* fs.mkdir rejects (EEXIST, ENOTDIR) when the path or one of its parents
\* is a regular file
mkdirRejects(fs, dir) == \E q \in AncestorsOf(dir) : q \in DOMAIN fs

\* opening a path for writing throws (EISDIR) when it is a directory
openRejects(ds, filePath) == Realpath(filePath) \in ds

\* ensureAgentDir joining the identifier as given
ensureAgentDirRaw(agentId) ==
    [sanitized |-> agentId, agentDir |-> join(MARKMAP_STORAGE_ROOT, agentId)]

\* ensureAgentDir up to its await: the sanitized id and the directory
ensureAgentDir(agentId) ==
    LET sanitized == sanitizeAgentId(agentId).value
    IN  [sanitized |-> sanitized, agentDir |-> join(MARKMAP_STORAGE_ROOT, sanitized)]

\* a base name without the timestamp
baseNameNoStamp(toolName, timestamp) == <<toolName>>

\* the base name `${toolName}_${timestamp}`
baseName(toolName, timestamp) == <<toolName, "_">> \o ToStr(timestamp)

\* the three paths of saveOutputs, the page stamped one millisecond later
SavedFilesOwnStamps(agentDir, toolName, timestamp) ==
    [svg  |-> join(agentDir, baseName(toolName, timestamp) \o <<".", "svg">>),
     html |-> join(agentDir, baseName(toolName, timestamp + 1) \o <<".", "html">>),
     md   |-> join(agentDir, baseName(toolName, timestamp) \o <<".", "md">>)]

\* the three paths of saveOutputs
SavedFiles(agentDir, toolName, timestamp) ==
    [svg  |-> join(agentDir, baseName(toolName, timestamp) \o <<".", "svg">>),
     html |-> join(agentDir, baseName(toolName, timestamp) \o <<".", "html">>),
     md   |-> join(agentDir, baseName(toolName, timestamp) \o <<".", "md">>)]

\* saveOutputs keeping only the newest artifact set of the directory
saveOutputsRotating(fs, agentDir, toolName, timestamp, svgContent, md) ==
    LET paths == SavedFiles(agentDir, toolName, timestamp)
        title == <<toolName>> \o ToStr(timestamp)
        kept == {q \in DOMAIN fs : ~IsWithin(q, agentDir)}
        fs0 == [q \in kept |-> fs[q]]
        fs1 == writeFileSync(fs0, paths.svg, svgContent)
        fs2 == writeFileSync(fs1, paths.html, generateHtml(md, title))
    IN  writeFileSync(fs2, paths.md, Content("md", md, <<>>))

\* the writes of saveOutputs, in order: svg, html, md
saveOutputsWrites(fs, agentDir, toolName, timestamp, svgContent, md) ==
    LET paths == SavedFiles(agentDir, toolName, timestamp)
        title == <<toolName>> \o ToStr(timestamp)
        fs1 == writeFileSync(fs, paths.svg, svgContent)
        fs2 == writeFileSync(fs1, paths.html, generateHtml(md, title))
    IN  writeFileSync(fs2, paths.md, Content("md", md, <<>>))

\* another invocation is suspended in ensureAgentDir on the same directory
OthersCreating(t) ==
    \E u \in Tasks \ {t} :
        task[u].pc \in {"mkdir", "mkdirStructure"} /\ task[u].dir = task[t].dir

\* saveOutputs up to its await (inside ensureAgentDir): the task suspends on
\* fs.mkdir with the directory chosen
CallSaveOutputs(t, op, svg, md, h) ==
    LET e == ensureAgentDir(task[t].agent_id)
    IN  /\ task' = [task EXCEPT ![t].pc = "mkdir", ![t].svg = svg, ![t].md = md,
                                ![t].dir = e.agentDir]
        /\ hist' = [h EXCEPT ![op].joined = @ \cup {e.sanitized},
                             ![op].dir = e.agentDir]

\* saveOutputs awaiting each write: after fs.mkdir resolved the timestamp is
\* taken, the svg is written and the task suspends again
SaveOutputsDoneAwaitingWrites(t) ==
    /\ task[t].pc = "mkdir"
    /\ LET me == task[t]
           paths == SavedFiles(me.dir, me.tool, clock)
       IN  /\ ~mkdirRejects(files, me.dir)
           /\ dirs' = mkdirRecursive(dirs, me.dir)
           /\ files' = writeFileSync(files, paths.svg, me.svg)
           /\ stable' = writeFileSync(stable, paths.svg, me.svg)
           /\ hist' = [hist EXCEPT ![me.op].stamp = clock,
                                   ![me.op].mkdirs = @ \cup {me.dir},
                                   ![me.op].writes = @ \cup {Realpath(paths.svg)}]
    /\ UNCHANGED <<cwd, clock, task, fnIn, fnOut>>

\* saveOutputs after fs.mkdir resolved: the timestamp is taken, the three
\* files are written synchronously and the tool returns its success payload
SaveOutputsDone(t) ==
    /\ task[t].pc = "mkdir"
    /\ LET me == task[t]
           paths == SavedFiles(me.dir, me.tool, clock)
       IN  IF mkdirRejects(files, me.dir)
           THEN \* the rejection leaves saveOutputs and lands in the tool's
                \* outer catch
                /\ hist' = [Failed(hist, me.op, "RenderError", "Error", "mkdir") EXCEPT
                                ![me.op].raced = OthersCreating(t)]
                /\ UNCHANGED <<dirs, files, stable>>
           ELSE /\ dirs' = mkdirRecursive(dirs, me.dir)
                /\ files' = saveOutputsWrites(files, me.dir, me.tool, clock, me.svg, me.md)
                /\ stable' = saveOutputsWrites(stable, me.dir, me.tool, clock, me.svg, me.md)
                /\ hist' = [hist EXCEPT ![me.op].status = "ok",
                                        ![me.op].stamp = clock,
                                        ![me.op].raced = OthersCreating(t),
                                        ![me.op].mkdirs = @ \cup {me.dir},
                                        ![me.op].saved = {paths.svg, paths.html, paths.md},
                                        ![me.op].writes =
                                            @ \cup {Realpath(paths.svg), Realpath(paths.html),
                                                    Realpath(paths.md)}]
    /\ task' = [task EXCEPT ![t] = IdleTask]
    /\ UNCHANGED <<cwd, clock, fnIn, fnOut>>

\* saveOutputs removing what it wrote when a later write throws
saveOutputsRolledBack(fs, agentDir, toolName, timestamp, svgContent, md, written) == fs

\* the first `written` writes of saveOutputs, in order: svg, html, md
saveOutputsPartial(fs, agentDir, toolName, timestamp, svgContent, md, written) ==
    LET paths == SavedFiles(agentDir, toolName, timestamp)
        title == <<toolName>> \o ToStr(timestamp)
        fs1 == IF written >= 1 THEN writeFileSync(fs, paths.svg, svgContent) ELSE fs
    IN  IF written >= 2 THEN writeFileSync(fs1, paths.html, generateHtml(md, title))
        ELSE fs1

\* saveOutputs after fs.mkdir resolved, when the storage fails (no space
\* left, I/O error) at the file after the first `written` ones: openSync or
\* writeSync throws, the exception leaves saveOutputs with the earlier files
\* in place and lands in the tool's outer catch
SaveOutputsThrows(t, written) ==
    /\ task[t].pc = "mkdir"
    /\ LET me == task[t]
           paths == SavedFiles(me.dir, me.tool, clock)
       IN  /\ ~mkdirRejects(files, me.dir)
           /\ dirs' = mkdirRecursive(dirs, me.dir)
           /\ files' = saveOutputsPartial(files, me.dir, me.tool, clock, me.svg, me.md,
                                          written)
           /\ stable' = saveOutputsPartial(stable, me.dir, me.tool, clock, me.svg, me.md,
                                           written)
           /\ hist' = [Failed(hist, me.op, "RenderError", "Error", "write") EXCEPT
                           ![me.op].stamp = clock,
                           ![me.op].mkdirs = @ \cup {me.dir},
                           ![me.op].writes =
                               @ \cup (IF written >= 1 THEN {Realpath(paths.svg)} ELSE {})
                                 \cup (IF written >= 2 THEN {Realpath(paths.html)} ELSE {})]
    /\ task' = [task EXCEPT ![t] = IdleTask]
    /\ UNCHANGED <<cwd, clock, fnIn, fnOut>>

\* the engine call the task awaits (applyCustomization, renderToSVG)
\* rejects: the exception lands in the tool's outer catch
RenderRejected(t) ==
    /\ task[t].pc = "render"
    /\ hist' = [Failed(hist, task[t].op, "RenderError", "Error", "engine") EXCEPT
                    ![task[t].op].engine = @ + 1]
    /\ task' = [task EXCEPT ![t] = IdleTask]
    /\ UNCHANGED <<cwd, clock, dirs, files, stable, fnIn, fnOut>>

\* ------------------------------------------------------------ customizeTool

validThemes == {"default", "dark", "colorful", "minimal"}
HexChars == Digits \cup {"A", "B", "C", "D", "E", "F", "a", "b", "c", "d", "e", "f"}

\* /^#[0-9A-Fa-f]{6}$/.test(c)
hexColorRegexTest(c) ==
    /\ Len(c) = 7
    /\ c[1] = "#"
    /\ \A i \in 2..7 : c[i] \in HexChars

NoScheme == [given |-> FALSE, colors |-> <<>>]
GoodScheme == [given |-> TRUE, colors |-> << <<"#", "1", "1", "2", "2", "3", "3">> >>]
BadScheme == [given |-> TRUE, colors |-> << <<"r", "e", "d">> >>]

\* the inputs customizeTool is called with
AgentIds == { <<"a">>, <<"a", "/">>, <<".", ".">>, <<"@">>, <<" ">>, <<>> }
Markdowns == {Doc1, BlankDoc, Doc2MB, Doc10000, Doc10001, DocDeep}
Themes == {"none", "", "dark", "neon"}
ColorSchemes == {NoScheme, GoodScheme, BadScheme}

\* the calls of customizeTool: every identifier with a plain request, and
\* for one agent every document and every theme and colour scheme
CustomizeInput(agent_id, md, theme, color_scheme) ==
    [agent_id |-> agent_id, markdown_content |-> md, theme |-> theme,
     color_scheme |-> color_scheme]
CustomizeInputs ==
    { CustomizeInput(id, Doc1, "none", NoScheme) : id \in AgentIds }
    \cup { CustomizeInput(<<"a">>, md, "none", NoScheme) : md \in Markdowns }
    \cup { CustomizeInput(<<"a">>, Doc1, theme, cs) :
              theme \in Themes, cs \in ColorSchemes }

\* MarkmapHandler.getColorScheme: the fixed palette of a theme
getColorScheme(theme) == << <<"palette", theme>> >>

\* colors_used taken from the theme whenever one is requested
colorsUsedThemeFirst(theme, color_scheme) ==
    IF theme # "default" THEN getColorScheme(theme)
    ELSE IF color_scheme.given THEN color_scheme.colors ELSE getColorScheme(theme)

\* colors_used = input.color_scheme || handler.getColorScheme(theme)
colorsUsed(theme, color_scheme) ==
    IF color_scheme.given THEN color_scheme.colors ELSE getColorScheme(theme)

\* the error customizeTool returns before it calls the engine, or none
customizeValidation(agent_id, md, theme, color_scheme) ==
    IF sanitizeAgentId(agent_id).threw
    THEN ToolError("ValidationError", sanitizeAgentId(agent_id).message)
    ELSE IF IsBlankDoc(md)
    THEN ToolError("ValidationError", "Markdown content cannot be empty")
    ELSE IF theme \notin {"none", ""} /\ theme \notin validThemes
    THEN ToolError("ValidationError", "Invalid theme")
    ELSE IF color_scheme.given
            /\ \E i \in 1..Len(color_scheme.colors) :
                  ~hexColorRegexTest(color_scheme.colors[i])
    THEN ToolError("ValidationError", "Invalid hex color")
    ELSE NoError

\* customizeTool from its call to the await of applyCustomization
CustomizeStart(t, agent_id, md, theme, color_scheme) ==
    /\ task[t].pc = "idle"
    /\ Len(hist) < MaxCalls
    /\ LET err == customizeValidation(agent_id, md, theme, color_scheme)
       IN  IF err # NoError
           THEN /\ hist' = Append(hist,
                       [Rejected("customize", agent_id, err) EXCEPT
                           !.md = md, !.theme = theme, !.color_scheme = color_scheme])
                /\ task' = task
           ELSE /\ hist' = Append(hist,
                       [OpRecord("customize", agent_id) EXCEPT
                           !.md = md, !.theme = theme, !.color_scheme = color_scheme])
                /\ task' = [task EXCEPT ![t] =
                       [IdleTask EXCEPT !.pc = "render", !.op = Len(hist) + 1,
                                        !.tool = "customize", !.agent_id = agent_id,
                                        !.md = md,
                                        !.theme = IF theme \in {"none", ""}
                                                  THEN "default" ELSE theme,
                                        !.colors = color_scheme.colors,
                                        !.custom = color_scheme.given]]
    /\ UNCHANGED <<cwd, clock, dirs, files, stable, fnIn, fnOut>>

\* customizeTool after applyCustomization resolved: the tree is parsed and
\* counted, and saveOutputs is called
CustomizeRendered(t) ==
    /\ task[t].pc = "render"
    /\ task[t].tool = "customize"
    /\ LET me == task[t]
           svg == applyCustomization(me.md, me.theme,
                                     [given |-> me.custom, colors |-> me.colors])
           colors_used == colorsUsed(me.theme, [given |-> me.custom, colors |-> me.colors])
       IN  CallSaveOutputs(t, me.op, svg, me.md,
                           [hist EXCEPT ![me.op].engine = @ + 1,
                                        ![me.op].parsed = TRUE,
                                        ![me.op].node_count = countNodes(me.md),
                                        ![me.op].colors_used = colors_used])
    /\ UNCHANGED <<cwd, clock, dirs, files, stable, fnIn, fnOut>>

\* ----------------------------------------------------------- renderFileTool

\* the text of a file read as Markdown
TextAsMarkdown(content) ==
    IF content.kind = "md" THEN content.md
    ELSE << Line(0, content.kind, 1) >>

\* an artifact of an earlier customize call of agent "a"
ArtifactMd ==
    MARKMAP_STORAGE_ROOT \o <<"/", "a", "/", "customize", "_", "1", ".", "md">>
ArtifactSvg ==
    MARKMAP_STORAGE_ROOT \o <<"/", "a", "/", "customize", "_", "1", ".", "svg">>

PathN == <<"n", ".", "md">>
PathSibling == <<"/", "a", "b", "/", "s", ".", "md">>
PathLink == <<"l", ".", "md">>
PathTraversal == <<".", ".", "/", "x", "/", "p", ".", "md">>
PathTxt == <<"n", ".", "txt">>
PathHuge == <<"h", ".", "md">>
PathUpper == <<"u", ".", "MD">>
PathBlank == <<" ">>
PathOutside == <<"/", "x", "/", "o", ".", "svg">>
PathAgentDir == MARKMAP_STORAGE_ROOT \o <<"/", "a">>

RenderInput(file_path, save_output, output_path) ==
    [file_path |-> file_path, save_output |-> save_output, output_path |-> output_path]

\* the inputs renderFileTool is called with.  file_path: a file of the
\* working directory, a file of the sibling directory /ab, the symbolic
\* link, an artifact of agent "a", a traversal out of the working directory,
\* a text file, no path.  output_path: none, an artifact of agent "a", the
\* symbolic link, a file of an unrelated tree
RenderInputs ==
    { RenderInput(PathN, FALSE, <<>>),
      RenderInput(PathN, FALSE, ArtifactSvg),
      RenderInput(PathN, TRUE, ArtifactSvg),
      RenderInput(PathN, TRUE, PathLink),
      RenderInput(PathN, TRUE, PathOutside),
      RenderInput(PathN, TRUE, PathAgentDir),
      RenderInput(PathSibling, FALSE, <<>>),
      RenderInput(PathLink, FALSE, <<>>),
      RenderInput(ArtifactMd, FALSE, <<>>),
      RenderInput(PathTraversal, FALSE, <<>>),
      RenderInput(PathTxt, FALSE, <<>>),
      RenderInput(PathHuge, FALSE, <<>>),
      RenderInput(PathUpper, FALSE, <<>>),
      RenderInput(PathBlank, FALSE, <<>>),
      RenderInput(<<>>, FALSE, <<>>) }

\* the calls of renderFileTool: every identifier with a file of the working
\* directory, and for one agent every input
RenderFileInputs ==
    { [agent_id |-> id, input |-> RenderInput(PathN, FALSE, <<>>)] : id \in AgentIds }
    \cup { [agent_id |-> <<"a">>, input |-> input] : input \in RenderInputs }

\* the validation of renderFileTool without the test of the extension
renderFileValidationAnyExtension(wd, agent_id, file_path) ==
    IF sanitizeAgentId(agent_id).threw
    THEN ToolError("ValidationError", sanitizeAgentId(agent_id).message)
    ELSE IF file_path = <<>> \/ Len(trim(file_path)) = 0
    THEN ToolError("ValidationError", "File path cannot be empty")
    ELSE IF ~validateFilePath(wd, file_path, agent_id)
    THEN ToolError("ValidationError", "File path must be within")
    ELSE NoError

\* the error renderFileTool returns before it reads the file, or none
renderFileValidation(wd, agent_id, file_path) ==
    IF sanitizeAgentId(agent_id).threw
    THEN ToolError("ValidationError", sanitizeAgentId(agent_id).message)
    ELSE IF file_path = <<>> \/ Len(trim(file_path)) = 0
    THEN ToolError("ValidationError", "File path cannot be empty")
    ELSE IF toLowerCase(extname(file_path)) \notin {<<".", "md">>, <<".", "markdown">>}
    THEN ToolError("ValidationError", "Invalid file extension")
    ELSE IF ~validateFilePath(wd, file_path, agent_id)
    THEN ToolError("ValidationError", "File path must be within")
    ELSE NoError

\* renderFileTool from its call to the await of fs.readFile
RenderFileStart(t, agent_id, file_path, save_output, output_path) ==
    /\ task[t].pc = "idle"
    /\ Len(hist) < MaxCalls
    /\ LET err == renderFileValidation(cwd, agent_id, file_path)
       IN  IF err # NoError
           THEN /\ hist' = Append(hist,
                       [Rejected("renderFile", agent_id, err) EXCEPT
                           !.file_path = file_path])
                /\ task' = task
           ELSE /\ hist' = Append(hist,
                       [OpRecord("renderFile", agent_id) EXCEPT
                           !.file_path = file_path,
                           !.joined = validateFilePathRun(cwd, file_path, agent_id).joined])
                /\ task' = [task EXCEPT ![t] =
                       [IdleTask EXCEPT !.pc = "read", !.op = Len(hist) + 1,
                                        !.tool = "renderFile", !.agent_id = agent_id,
                                        !.file_path = file_path,
                                        !.output_path =
                                            IF save_output THEN output_path ELSE <<>>]]
    /\ UNCHANGED <<cwd, clock, dirs, files, stable, fnIn, fnOut>>

\* fs.readFile resolved or rejected; on success the task awaits fs.stat
RenderFileRead(t) ==
    /\ task[t].pc = "read"
    /\ LET me == task[t]
           target == Realpath(resolve(cwd, me.file_path))
       IN  IF target \in DOMAIN files
           THEN /\ task' = [task EXCEPT ![t].pc = "stat",
                                        ![t].md = TextAsMarkdown(files[target])]
                /\ hist' = [hist EXCEPT ![me.op].reads =
                                            @ \cup {Access(resolve(cwd, me.file_path))},
                                        ![me.op].md = TextAsMarkdown(files[target])]
           ELSE /\ task' = [task EXCEPT ![t] = IdleTask]
                /\ hist' = [Failed(hist, me.op, "FileSystemError", "File Error", "read")
                                EXCEPT ![me.op].reads =
                                           @ \cup {Access(resolve(cwd, me.file_path))}]
    /\ UNCHANGED <<cwd, clock, dirs, files, stable, fnIn, fnOut>>

\* fs.stat resolved: the size is checked, the tree parsed and counted, and
\* the task awaits renderToSVG
RenderFileStat(t) ==
    /\ task[t].pc = "stat"
    /\ LET me == task[t]
           target == Realpath(resolve(cwd, me.file_path))
           size == IF target \in DOMAIN files
                   THEN byteLength(TextAsMarkdown(files[target])) ELSE 0
       IN  IF target \notin DOMAIN files
           THEN /\ task' = [task EXCEPT ![t] = IdleTask]
                /\ hist' = Failed(hist, me.op, "FileSystemError", "File Error", "stat")
           ELSE IF size > 5 * 1024 * 1024
           THEN /\ task' = [task EXCEPT ![t] = IdleTask]
                /\ hist' = [Failed(hist, me.op, "ValidationError", "File too large", "")
                                EXCEPT ![me.op].size = size]
           ELSE /\ task' = [task EXCEPT ![t].pc = "render"]
                /\ hist' = [hist EXCEPT ![me.op].size = size,
                                        ![me.op].parsed = TRUE,
                                        ![me.op].node_count = countNodes(me.md),
                                        ![me.op].depth = calculateDepth(me.md)]
    /\ UNCHANGED <<cwd, clock, dirs, files, stable, fnIn, fnOut>>

\* renderToSVG resolved: with a legacy output path, the path is checked and
\* the task awaits the mkdir of its directory; without, saveOutputs is called
RenderFileRendered(t) ==
    /\ task[t].pc = "render"
    /\ task[t].tool = "renderFile"
    /\ LET me == task[t]
           svg == renderToSVG(me.md)
           h == [hist EXCEPT ![me.op].engine = @ + 1,
                             ![me.op].joined =
                                 IF me.output_path # <<>>
                                 THEN @ \cup validateFilePathRun(cwd, me.output_path,
                                                                 me.agent_id).joined
                                 ELSE @]
       IN  IF me.output_path # <<>>
           THEN IF ~validateFilePath(cwd, me.output_path, me.agent_id)
                THEN /\ task' = [task EXCEPT ![t] = IdleTask]
                     /\ hist' = [h EXCEPT ![me.op].status = "error",
                                          ![me.op].errorType = "ValidationError",
                                          ![me.op].text = "Output path must be within"]
                ELSE /\ task' = [task EXCEPT ![t].pc = "outmkdir", ![t].svg = svg]
                     /\ hist' = h
           ELSE CallSaveOutputs(t, me.op, svg, me.md, h)
    /\ UNCHANGED <<cwd, clock, dirs, files, stable, fnIn, fnOut>>

\* fs.mkdir(path.dirname(output_path)) resolved; the task awaits fs.writeFile
RenderFileOutMkdir(t) ==
    /\ task[t].pc = "outmkdir"
    /\ LET me == task[t]
           outputDir == dirname(resolve(cwd, me.output_path))
       IN  IF mkdirRejects(files, outputDir)
           THEN /\ hist' = Failed(hist, me.op, "FileSystemError", "Error saving file",
                                  "legacy mkdir")
                /\ task' = [task EXCEPT ![t] = IdleTask]
                /\ dirs' = dirs
           ELSE /\ dirs' = mkdirRecursive(dirs, outputDir)
                /\ hist' = [hist EXCEPT ![me.op].mkdirs = @ \cup {outputDir}]
                /\ task' = [task EXCEPT ![t].pc = "outwrite"]
    /\ UNCHANGED <<cwd, clock, files, stable, fnIn, fnOut>>

\* fs.writeFile(output_path) resolved; saveOutputs is called
RenderFileOutWrite(t) ==
    /\ task[t].pc = "outwrite"
    /\ LET me == task[t]
           target == resolve(cwd, me.output_path)
       IN  IF openRejects(dirs, target)
           THEN /\ hist' = Failed(hist, me.op, "FileSystemError", "Error saving file",
                                  "legacy write")
                /\ task' = [task EXCEPT ![t] = IdleTask]
                /\ files' = files
           ELSE /\ files' = writeFile(files, target, me.svg)
                /\ CallSaveOutputs(t, me.op, me.svg, me.md,
                       [hist EXCEPT ![me.op].legacy = @ \cup {Access(target)}])
    /\ UNCHANGED <<cwd, clock, dirs, stable, fnIn, fnOut>>

\* ---------------------------------------------------------- fromOutlineTool

\* an outline item: its text and its level, a number given by its whole
\* part and whether one half is added to it
OutlineItem(text, level, half) == [text |-> text, level |-> level, half |-> half]

GoodOutline == << OutlineItem("A", 1, FALSE), OutlineItem("B", 2, FALSE) >>

\* the outlines fromOutlineTool is called with: none, a good one, a blank
\* text, the levels 7, 0, 0.5, 1.5 and 6.5
Outlines ==
    { <<>>,
      GoodOutline,
      << OutlineItem(" ", 1, FALSE) >>,
      << OutlineItem("A", 7, FALSE) >>,
      << OutlineItem("A", 0, FALSE) >>,
      << OutlineItem("A", 0, TRUE) >>,
      << OutlineItem("A", 1, TRUE) >>,
      << OutlineItem("A", 6, TRUE) >> }

\* the calls of fromOutlineTool: every identifier with a good outline, and
\* for one agent every outline
FromOutlineInputs ==
    { [agent_id |-> id, outline_items |-> GoodOutline] : id \in AgentIds }
    \cup { [agent_id |-> <<"a">>, outline_items |-> o] : o \in Outlines }

\* outlineToMarkdown: one heading line per item, with as many markers as
\* the whole part of the item's level
outlineToMarkdown(items) ==
    [i \in 1..Len(items) |-> Line(items[i].level, items[i].text, 1)]

\* the error fromOutlineTool returns before it compiles the outline, or ""
fromOutlineValidation(agent_id, outline_items) ==
    IF sanitizeAgentId(agent_id).threw
    THEN ToolError("ValidationError", sanitizeAgentId(agent_id).message)
    ELSE IF Len(outline_items) = 0
    THEN ToolError("ValidationError", "Outline items cannot be empty")
    ELSE IF \E i \in 1..Len(outline_items) : outline_items[i].text \in {"", " "}
    THEN ToolError("ValidationError", "Outline item has empty text")
    ELSE IF \E i \in 1..Len(outline_items) :
               \/ outline_items[i].level = 0 /\ ~outline_items[i].half
               \/ outline_items[i].level < 1
               \/ outline_items[i].level > 6
               \/ outline_items[i].level = 6 /\ outline_items[i].half
    THEN ToolError("ValidationError", "Outline item has invalid level")
    ELSE NoError

\* fromOutlineTool from its call to the await of renderToSVG
FromOutlineStart(t, agent_id, outline_items) ==
    /\ task[t].pc = "idle"
    /\ Len(hist) < MaxCalls
    /\ LET err == fromOutlineValidation(agent_id, outline_items)
       IN  IF err # NoError
           THEN /\ hist' = Append(hist,
                       [Rejected("fromOutline", agent_id, err) EXCEPT
                           !.outline_items = outline_items])
                /\ task' = task
           ELSE /\ hist' = Append(hist,
                       [OpRecord("fromOutline", agent_id) EXCEPT
                           !.outline_items = outline_items,
                           !.md = outlineToMarkdown(outline_items),
                           !.parsed = TRUE,
                           !.node_count = countNodes(outlineToMarkdown(outline_items)),
                           !.depth = calculateDepth(outlineToMarkdown(outline_items))])
                /\ task' = [task EXCEPT ![t] =
                       [IdleTask EXCEPT !.pc = "render", !.op = Len(hist) + 1,
                                        !.tool = "fromOutline", !.agent_id = agent_id,
                                        !.md = outlineToMarkdown(outline_items)]]
    /\ UNCHANGED <<cwd, clock, dirs, files, stable, fnIn, fnOut>>

\* renderToSVG resolved: saveOutputs is called
FromOutlineRendered(t) ==
    /\ task[t].pc = "render"
    /\ task[t].tool = "fromOutline"
    /\ LET me == task[t]
       IN  CallSaveOutputs(t, me.op, renderToSVG(me.md), me.md,
                           [hist EXCEPT ![me.op].engine = @ + 1])
    /\ UNCHANGED <<cwd, clock, dirs, files, stable, fnIn, fnOut>>

\* ---------------------------------------------------- saveStructureOutputs

\* the two paths of saveStructureOutputs
SavedStructureFiles(agentDir, toolName, timestamp) ==
    [md   |-> join(agentDir, baseName(toolName, timestamp) \o <<".", "md">>),
     json |-> join(agentDir, baseName(toolName, timestamp) \o <<".", "json">>)]

\* the writes of saveStructureOutputs, in order: md, json
saveStructureOutputsWrites(fs, agentDir, toolName, timestamp, md) ==
    LET paths == SavedStructureFiles(agentDir, toolName, timestamp)
        fs1 == writeFileSync(fs, paths.md, Content("md", md, <<>>))
    IN  writeFileSync(fs1, paths.json, Content("json", md, <<>>))

\* saveStructureOutputs(agentId, 'getStructure', markdown, structure) from
\* its call to the await of fs.mkdir inside ensureAgentDir; an identifier
\* the sanitizer refuses makes the call throw to its caller
SaveStructureOutputsCall(t, agent_id, md) ==
    /\ task[t].pc = "idle"
    /\ Len(hist) < MaxCalls
    /\ LET san == sanitizeAgentId(agent_id)
           e == ensureAgentDir(agent_id)
       IN  IF san.threw
           THEN /\ hist' = Append(hist, Rejected("getStructure", agent_id,
                                                 ToolError("", san.message)))
                /\ task' = task
           ELSE /\ hist' = Append(hist,
                       [OpRecord("getStructure", agent_id) EXCEPT
                           !.joined = {e.sanitized}, !.dir = e.agentDir])
                /\ task' = [task EXCEPT ![t] =
                       [IdleTask EXCEPT !.pc = "mkdirStructure", !.op = Len(hist) + 1,
                                        !.tool = "getStructure", !.agent_id = agent_id,
                                        !.md = md, !.dir = e.agentDir]]
    /\ UNCHANGED <<cwd, clock, dirs, files, stable, fnIn, fnOut>>

\* saveStructureOutputs after fs.mkdir resolved: the timestamp is taken, the
\* two files are written synchronously and the paths are returned
SaveStructureOutputsDone(t) ==
    /\ task[t].pc = "mkdirStructure"
    /\ LET me == task[t]
           paths == SavedStructureFiles(me.dir, me.tool, clock)
       IN  IF mkdirRejects(files, me.dir)
           THEN \* the rejection is thrown to the caller
                /\ hist' = [Failed(hist, me.op, "", "EEXIST", "mkdir") EXCEPT
                                ![me.op].raced = OthersCreating(t)]
                /\ UNCHANGED <<dirs, files, stable>>
           ELSE /\ dirs' = mkdirRecursive(dirs, me.dir)
                /\ files' = saveStructureOutputsWrites(files, me.dir, me.tool, clock, me.md)
                /\ stable' = saveStructureOutputsWrites(stable, me.dir, me.tool, clock,
                                                        me.md)
                /\ hist' = [hist EXCEPT ![me.op].status = "ok",
                                        ![me.op].stamp = clock,
                                        ![me.op].raced = OthersCreating(t),
                                        ![me.op].mkdirs = @ \cup {me.dir},
                                        ![me.op].saved = {paths.md, paths.json},
                                        ![me.op].writes =
                                            @ \cup {Realpath(paths.md), Realpath(paths.json)}]
    /\ task' = [task EXCEPT ![t] = IdleTask]
    /\ UNCHANGED <<cwd, clock, fnIn, fnOut>>

\* ------------------------------------------------------------ specification

Next ==
    \/ Tick
    \/ \E t \in Tasks, input \in CustomizeInputs :
          CustomizeStart(t, input.agent_id, input.markdown_content, input.theme,
                         input.color_scheme)
    \/ \E t \in Tasks : CustomizeRendered(t)
    \/ \E t \in Tasks, call \in RenderFileInputs :
          RenderFileStart(t, call.agent_id, call.input.file_path,
                          call.input.save_output, call.input.output_path)
    \/ \E t \in Tasks : RenderFileRead(t)
    \/ \E t \in Tasks : RenderFileStat(t)
    \/ \E t \in Tasks : RenderFileRendered(t)
    \/ \E t \in Tasks : RenderFileOutMkdir(t)
    \/ \E t \in Tasks : RenderFileOutWrite(t)
    \/ \E t \in Tasks, input \in FromOutlineInputs :
          FromOutlineStart(t, input.agent_id, input.outline_items)
    \/ \E t \in Tasks : FromOutlineRendered(t)
    \/ \E t \in Tasks : SaveOutputsDone(t)
    \/ \E t \in Tasks, written \in 0..2 : SaveOutputsThrows(t, written)
    \/ \E t \in Tasks : RenderRejected(t)
    \/ \E t \in Tasks, agent_id \in AgentIds :
          SaveStructureOutputsCall(t, agent_id, Doc1)
    \/ \E t \in Tasks : SaveStructureOutputsDone(t)

Spec == Init /\ [][Next]_vars

\* ------------------------------------------- the sanitizer on every input

\* every identifier up to MaxIdLen characters
Identifiers == StringsUpTo(IdChars, MaxIdLen)

InitIdent ==
    /\ cwd \in ProcessCwds
    /\ clock = 1
    /\ dirs = InitDirs
    /\ files = InitFiles
    /\ stable = InitFiles
    /\ task = [t \in Tasks |-> IdleTask]
    /\ hist = <<>>
    /\ fnIn \in {[NoArgs EXCEPT !.agentId = id] : id \in Identifiers}
    /\ fnOut = NoResult

\* sanitizeAgentId(agentId) is called
SanitizeCall ==
    /\ fnOut.stage = "none"
    /\ LET r == sanitizeAgentId(fnIn.agentId)
       IN  fnOut' = [fnOut EXCEPT !.stage = "sanitized", !.threw = r.threw,
                                  !.value = r.value]
    /\ UNCHANGED <<cwd, clock, dirs, files, stable, task, hist, fnIn>>

\* ensureAgentDir(agentId) computes the directory of an accepted identifier
EnsureAgentDirCall ==
    /\ fnOut.stage = "sanitized"
    /\ ~fnOut.threw
    /\ fnOut' = [fnOut EXCEPT !.stage = "dir",
                              !.dir = ensureAgentDir(fnIn.agentId).agentDir]
    /\ UNCHANGED <<cwd, clock, dirs, files, stable, task, hist, fnIn>>

\* a tool is called with the identifier and otherwise valid input, and runs
\* up to the end of its validation
CustomizeIdCheck ==
    /\ fnOut.stage = "sanitized"
    /\ fnOut' = [fnOut EXCEPT !.stage = "tool", !.tool = "customize",
                     !.error = customizeValidation(fnIn.agentId, Doc1, "none", NoScheme)]
    /\ UNCHANGED <<cwd, clock, dirs, files, stable, task, hist, fnIn>>

RenderFileIdCheck ==
    /\ fnOut.stage = "sanitized"
    /\ fnOut' = [fnOut EXCEPT !.stage = "tool", !.tool = "renderFile",
                     !.error = renderFileValidation(cwd, fnIn.agentId, PathN)]
    /\ UNCHANGED <<cwd, clock, dirs, files, stable, task, hist, fnIn>>

FromOutlineIdCheck ==
    /\ fnOut.stage = "sanitized"
    /\ fnOut' = [fnOut EXCEPT !.stage = "tool", !.tool = "fromOutline",
                     !.error = fromOutlineValidation(fnIn.agentId, GoodOutline)]
    /\ UNCHANGED <<cwd, clock, dirs, files, stable, task, hist, fnIn>>

NextIdent ==
    \/ SanitizeCall
    \/ EnsureAgentDirCall
    \/ CustomizeIdCheck
    \/ RenderFileIdCheck
    \/ FromOutlineIdCheck

SpecIdent == InitIdent /\ [][NextIdent]_vars

\* ------------------------------------------ the path guard on many inputs

\* ../etc/passwd
EtcPasswd == <<".", ".", "/", "e", "tc", "/", "passwd">>

GuardCwds == { <<"/", "a">>, <<"/", "e">> }
GuardIds == { <<"a">>, <<"e">>, <<"a", "b">>, <<".", ".">>, <<>> }

\* paths relative to the working directory, below the directories of the
\* agents a, e and ab, below /ab and below /x, each ending in ../etc/passwd,
\* in a file, in a file of a subdirectory or in a file of the parent
GuardBases ==
    { <<>>, <<"/", "a", "b", "/">>, <<"/", "x", "/">> }
    \cup { AgentDirOf(id) \o <<"/">> : id \in { <<"a">>, <<"e">>, <<"a", "b">> } }
GuardTails ==
    { EtcPasswd, <<"n", ".", "md">>, <<"s", "/", "n", ".", "md">>,
      <<".", ".", "/", "n", ".", "md">> }
GuardPaths == { b \o tl : b \in GuardBases, tl \in GuardTails }

InitGuard ==
    /\ cwd \in GuardCwds
    /\ clock = 1
    /\ dirs = InitDirs
    /\ files = InitFiles
    /\ stable = InitFiles
    /\ task = [t \in Tasks |-> IdleTask]
    /\ hist = <<>>
    /\ fnIn \in [agentId : GuardIds, filePath : GuardPaths]
    /\ fnOut = NoResult

\* validateFilePath(filePath, agentId) is called
ValidateFilePathCall ==
    /\ fnOut.stage = "none"
    /\ fnOut' = [fnOut EXCEPT !.stage = "guard",
                     !.value = resolve(cwd, fnIn.filePath),
                     !.accepted = validateFilePath(cwd, fnIn.filePath, fnIn.agentId)]
    /\ UNCHANGED <<cwd, clock, dirs, files, stable, task, hist, fnIn>>

NextGuard == ValidateFilePathCall

SpecGuard == InitGuard /\ [][NextGuard]_vars

\* ------------------------------------------------------------------ claims

\* the identifier has no character of [a-zA-Z0-9._-]: it is empty, blank or
\* made of other characters only
NoValidCharacter(id) == \A i \in 1..Len(id) : ~IdCharAllowed(id[i])

\* the positions of an identifier that hold an allowed character
KeptPositions(id) == {j \in 1..Len(id) : IdCharAllowed(id[j])}

\* C1: the directory ensureAgentDir computes for an accepted identifier is a
\* proper descendant of MARKMAP_STORAGE_ROOT, never the root itself and never
\* a place outside it.
C1_AgentDirBelowRoot ==
    fnOut.stage = "dir" => IsProperDescendant(fnOut.dir, MARKMAP_STORAGE_ROOT)

\* C5: what sanitizeAgentId returns is the input with exactly the characters
\* outside [a-zA-Z0-9._-] removed and the others kept in their order; an
\* input of allowed characters only is returned unchanged.
C5_StripsExactlyDisallowed ==
    (fnOut.stage # "none" /\ ~fnOut.threw) =>
        LET id == fnIn.agentId
            kept == KeptPositions(id)
        IN  /\ Len(fnOut.value) = Cardinality(kept)
            /\ \A i \in kept :
                  fnOut.value[Cardinality({j \in kept : j <= i})] = id[i]
            /\ (kept = 1..Len(id)) => fnOut.value = id

\* an identifier with a disallowed character between allowed ones was
\* sanitized
C5_Witness ==
    /\ fnOut.stage = "sanitized"
    /\ ~fnOut.threw
    /\ fnIn.agentId = <<"a", "/", "b">>
    /\ fnOut.value = <<"a", "b">>

\* C6: sanitizeAgentId throws exactly for the identifiers that are empty,
\* blank or without any allowed character, and customizeTool, renderFileTool
\* and fromOutlineTool answer such an identifier with a ValidationError
\* carrying the sanitizer's message, and no other identifier with it.
C6_FailsExactlyWithoutValidCharacter ==
    /\ fnOut.stage # "none" => (fnOut.threw <=> NoValidCharacter(fnIn.agentId))
    /\ fnOut.stage = "tool" =>
          IF NoValidCharacter(fnIn.agentId)
          THEN /\ fnOut.error.errorType = "ValidationError"
               /\ fnOut.error.text \in {"agent_id cannot be empty",
                                        "agent_id contains no valid characters"}
          ELSE fnOut.error = NoError

\* a tool answered an identifier of disallowed characters only
C6_Witness ==
    /\ fnOut.stage = "tool"
    /\ fnOut.tool = "fromOutline"
    /\ fnIn.agentId = <<"@", "/">>
    /\ fnOut.error.errorType = "ValidationError"

\* C4: the path guard rejects ../etc/passwd taken relative to the working
\* directory and relative to the caller's agent directory, and accepts every
\* path strictly inside the caller's agent directory.
C4_RejectsEtcPasswdAcceptsOwnSubtree ==
    fnOut.stage = "guard" =>
        LET sanitized == SelectSeq(fnIn.agentId, IdCharAllowed)
        IN  /\ fnIn.filePath = EtcPasswd => ~fnOut.accepted
            /\ (sanitized # <<>>
                /\ fnIn.filePath = AgentDirOf(sanitized) \o <<"/">> \o EtcPasswd)
                  => ~fnOut.accepted
            /\ (sanitized # <<>>
                /\ IsProperDescendant(fnOut.value, AgentDirOf(sanitized)))
                  => fnOut.accepted

\* the identifier's allowed characters, in order
SanitizedOf(id) == SelectSeq(id, IdCharAllowed)

Ops == 1..Len(hist)

\* the resolved path lies in the working directory or in the storage
\* directory of the invocation's sanitized identifier
InsideRoots(p, i) ==
    \/ IsWithin(p, ResolveAbs(cwd))
    \/ IsWithin(p, AgentDirOf(SanitizedOf(hist[i].agent_id)))

\* the file accesses renderFileTool made under the path guard
Guarded(i) == hist[i].reads \cup hist[i].legacy

\* C2: renderFileTool reads its input file and writes its legacy output_path
\* only at a resolved path that is the working directory, the storage
\* directory of the caller's sanitized identifier, or below one of them.
C2_GuardedAccessInsideRoots ==
    \A i \in Ops : \A a \in Guarded(i) : InsideRoots(a.path, i)

\* C3: renderFileTool never reads or writes, through a symbolic link at a
\* path inside a permitted root, a file outside both permitted roots.
C3_NoSymlinkEscape ==
    \A i \in Ops : \A a \in Guarded(i) :
        InsideRoots(a.path, i) => InsideRoots(a.target, i)

\* C7: in every operation the only value joined onto the storage root is the
\* sanitized identifier, and an operation whose identifier fails
\* sanitization creates no directory, writes and reads no file and does not
\* call the render engine.
C7_SanitizerIsTheGate ==
    /\ \A i \in Ops : hist[i].joined \subseteq {SanitizedOf(hist[i].agent_id)}
    /\ \A i \in Ops :
          NoValidCharacter(hist[i].agent_id) =>
              /\ hist[i].status = "error"
              /\ hist[i].joined = {}
              /\ hist[i].mkdirs = {}
              /\ hist[i].writes = {}
              /\ hist[i].legacy = {}
              /\ hist[i].reads = {}
              /\ hist[i].saved = {}
              /\ hist[i].engine = 0
    /\ (\A i \in Ops : NoValidCharacter(hist[i].agent_id)) =>
          (files = InitFiles /\ dirs = InitDirs)

\* an identifier with a stripped character was used for a save, and an
\* identifier without allowed characters was rejected
C7_Witness ==
    \E i, j \in Ops :
        /\ hist[i].agent_id = <<"a", "/">>
        /\ hist[i].status = "ok"
        /\ hist[i].joined = {<<"a">>}
        /\ hist[j].agent_id = <<"@">>
        /\ hist[j].status = "error"

\* C8: two operations with different identifiers, both accepted by the
\* sanitizer, write into disjoint directories: no artifact path of one lies
\* in the directory of the other.
C8_DifferentIdsDisjointDirs ==
    \A i, j \in Ops :
        (/\ i # j
         /\ hist[i].agent_id # hist[j].agent_id
         /\ hist[i].saved # {}
         /\ hist[j].saved # {})
            => \A p \in hist[i].saved : ~IsWithin(p, hist[j].dir)

\* C9 as claimed: two save operations with the same identifier write into
\* the same directory and return no path in common.
C9_SameIdDistinctFiles ==
    \A i, j \in Ops :
        (/\ i # j
         /\ hist[i].agent_id = hist[j].agent_id
         /\ hist[i].saved # {}
         /\ hist[j].saved # {})
            => /\ hist[i].dir = hist[j].dir
               /\ hist[i].saved \cap hist[j].saved = {}

\* C9 as amended: two save operations with the same identifier write into
\* the same directory; they return no path in common when their tool names
\* or their millisecond timestamps differ, and the same base name when both
\* are equal.
C9_SameIdDistinctUnlessSameMillisecond ==
    \A i, j \in Ops :
        (/\ i # j
         /\ hist[i].agent_id = hist[j].agent_id
         /\ hist[i].saved # {}
         /\ hist[j].saved # {})
            => /\ hist[i].dir = hist[j].dir
               /\ \A p \in hist[i].saved \cup hist[j].saved :
                     dirname(p) = hist[i].dir
               /\ (hist[i].tool # hist[j].tool \/ hist[i].stamp # hist[j].stamp)
                     => hist[i].saved \cap hist[j].saved = {}
               /\ (hist[i].tool = hist[j].tool /\ hist[i].stamp = hist[j].stamp)
                     => hist[i].saved = hist[j].saved

\* two saves of the same tool and identifier, in different milliseconds
C9_Witness ==
    \E i, j \in Ops :
        /\ i # j
        /\ hist[i].agent_id = hist[j].agent_id
        /\ hist[i].tool = hist[j].tool
        /\ hist[i].saved # {}
        /\ hist[j].saved # {}
        /\ hist[i].stamp # hist[j].stamp
        /\ hist[i].saved \cap hist[j].saved = {}

\* the files written by the save operations so far
ArtifactTargets == UNION {hist[i].writes : i \in Ops}

\* C10 as claimed: once a save operation has written an artifact file, no
\* later step changes its content or deletes it.
C10_WriteOnce ==
    [][\A p \in ArtifactTargets : p \in DOMAIN files' /\ files'[p] = files[p]]_vars

\* the step is a save that takes the directory, tool name and millisecond of
\* an earlier save that wrote p, or a legacy write of renderFileTool to p
RewrittenBy(p) ==
    \E t \in Tasks :
        \/ /\ task[t].pc \in {"mkdir", "mkdirStructure"}
           /\ task'[t].pc = "idle"
           /\ \E i \in Ops :
                 /\ p \in hist[i].writes
                 /\ hist[i].dir = task[t].dir
                 /\ hist[i].tool = task[t].tool
                 /\ hist[i].stamp = clock
        \/ /\ task[t].pc = "outwrite"
           /\ task'[t].pc = "mkdir"
           /\ Realpath(resolve(cwd, task[t].output_path)) = p

\* C10 as amended: no step deletes an artifact file, and its content changes
\* only when a later save for the same directory and tool name takes the
\* same millisecond timestamp or when renderFileTool is given the file as
\* its legacy output_path.
C10_NeverDeletedRewrittenOnlyByCollision ==
    [][\A p \in ArtifactTargets :
          /\ p \in DOMAIN files'
          /\ files'[p] # files[p] => RewrittenBy(p)]_vars

\* an artifact was written by one operation and later by another, and every
\* artifact is still on disk
C10_Witness ==
    /\ \E i, j \in Ops :
          /\ i < j
          /\ hist[i].status = "ok"
          /\ hist[j].status = "ok"
          /\ hist[i].writes \cap
                (hist[j].writes \cup {a.target : a \in hist[j].legacy}) # {}
    /\ ArtifactTargets \subseteq DOMAIN files


\* C11: every file an operation writes (the three files of saveOutputs, the
\* two of saveStructureOutputs, the legacy output_path file of
\* renderFileTool) is on stable storage, with the content the process sees,
\* at the step in which the operation returns its success response
C11_WritesSyncedBeforeSuccess ==
    [][\A i \in 1..Len(hist) :
          (hist[i].status = "running" /\ hist'[i].status = "ok") =>
              \A p \in hist'[i].writes \cup {a.target : a \in hist'[i].legacy} :
                  p \in DOMAIN stable' /\ stable'[p] = files'[p]]_vars


\* the tools that save through saveOutputs
SaveOutputsTools == {"customize", "renderFile", "fromOutline"}

\* {storage root}/{sanitized identifier}/{toolName}_{t}.{ext}
ArtifactName(i, ext) ==
    AgentDirOf(StripDisallowed(hist[i].agent_id)) \o <<"/", hist[i].tool, "_">>
        \o ToStr(hist[i].stamp) \o <<".", ext>>

\* C12: a successful saveOutputs call has written exactly the three files
\* {toolName}_{t}.svg, .html and .md, a successful saveStructureOutputs call
\* exactly the two files {toolName}_{t}.md and .json, with one timestamp t,
\* directly in {storage root}/{sanitized identifier}/, and the paths it
\* returned are exactly these files
C12_ArtifactSetNamedByToolAndStamp ==
    \A i \in 1..Len(hist) :
        hist[i].status = "ok" =>
            LET exts == IF hist[i].tool \in SaveOutputsTools
                        THEN {"svg", "html", "md"} ELSE {"md", "json"}
                expected == {ArtifactName(i, ext) : ext \in exts}
            IN  /\ hist[i].saved = expected
                /\ hist[i].writes = expected
                /\ Cardinality(expected) = Cardinality(exts)
                /\ expected \subseteq DOMAIN files
                /\ \A p \in expected :
                       dirname(p) = AgentDirOf(StripDisallowed(hist[i].agent_id))

\* a saveOutputs call and a saveStructureOutputs call have both succeeded
C12_Witness ==
    /\ \E i \in 1..Len(hist) :
           hist[i].status = "ok" /\ hist[i].tool \in SaveOutputsTools
           /\ Cardinality(hist[i].saved) = 3
    /\ \E i \in 1..Len(hist) :
           hist[i].status = "ok" /\ hist[i].tool = "getStructure"
           /\ Cardinality(hist[i].saved) = 2


\* a colour of the form #RRGGBB
IsHexColor(c) ==
    /\ Len(c) = 7
    /\ c[1] = "#"
    /\ \A k \in 2..7 : c[k] \in Digits \cup {"A", "B", "C", "D", "E", "F",
                                              "a", "b", "c", "d", "e", "f"}

\* the call gives a theme outside the four themes, or a colour that is not
\* of the form #RRGGBB
InvalidCustomization(i) ==
    \/ hist[i].theme # "none"
       /\ hist[i].theme \notin {"default", "dark", "colorful", "minimal"}
    \/ hist[i].color_scheme.given
       /\ \E k \in 1..Len(hist[i].color_scheme.colors) :
              ~IsHexColor(hist[i].color_scheme.colors[k])

\* C13: customizeTool called with a theme outside {default, dark, colorful,
\* minimal} or with a colour that does not match #RRGGBB returns a
\* ValidationError, and neither the render engine nor the artifact writer
\* is invoked
C13_InvalidThemeOrColorRejected ==
    \A i \in 1..Len(hist) :
        (hist[i].tool = "customize" /\ InvalidCustomization(i)) =>
            /\ hist[i].status = "error"
            /\ hist[i].errorType = "ValidationError"
            /\ hist[i].engine = 0
            /\ hist[i].mkdirs = {}
            /\ hist[i].writes = {}

\* C14: on success colors_used is the supplied color_scheme, entry for
\* entry, whatever the theme; without a color_scheme it is the palette of
\* the requested theme, or of the default theme when none is requested
C14_ColorsUsed ==
    \A i \in 1..Len(hist) :
        (hist[i].tool = "customize" /\ hist[i].status = "ok") =>
            hist[i].colors_used =
                IF hist[i].color_scheme.given THEN hist[i].color_scheme.colors
                ELSE IF hist[i].theme \in validThemes
                     THEN getColorScheme(hist[i].theme)
                     ELSE getColorScheme("default")

\* two calls with the dark theme have succeeded, one with colours of its
\* own and one without
C14_Witness ==
    /\ \E i \in 1..Len(hist) :
           /\ hist[i].tool = "customize" /\ hist[i].status = "ok"
           /\ hist[i].theme = "dark" /\ hist[i].color_scheme = GoodScheme
           /\ hist[i].colors_used = GoodScheme.colors
    /\ \E i \in 1..Len(hist) :
           /\ hist[i].tool = "customize" /\ hist[i].status = "ok"
           /\ hist[i].theme = "dark" /\ ~hist[i].color_scheme.given
           /\ hist[i].colors_used = getColorScheme("dark")


\* the OutlineItem invariants: a text that is not blank and a level that is
\* one of the integers 1..6
ValidOutlineItem(item) ==
    /\ item.text \notin {"", " "}
    /\ ~item.half
    /\ item.level \in 1..6

\* C15: fromOutlineTool returns a ValidationError, without compiling the
\* outline and without calling the render engine or the artifact writer,
\* whenever the outline is empty or an item has a blank text or a level that
\* is not an integer in 1..6; every item that is compiled is a valid item
C15_InvalidOutlineRejected ==
    \A i \in 1..Len(hist) :
        LET items == hist[i].outline_items
            valid == Len(items) > 0 /\ \A k \in 1..Len(items) : ValidOutlineItem(items[k])
        IN  (hist[i].tool = "fromOutline" /\ ~valid) =>
                /\ hist[i].status = "error"
                /\ hist[i].errorType = "ValidationError"
                /\ hist[i].md = <<>>
                /\ hist[i].engine = 0
                /\ hist[i].mkdirs = {}
                /\ hist[i].writes = {}


\* the error kinds
ErrorKinds ==
    {"ValidationError", "ResourceLimitError", "PathSecurityError", "FileSystemError",
     "RenderError"}

\* the awaits at which a tool invocation is suspended; each has a
\* continuation (the actions guarded by these values)
Awaits == {"render", "read", "stat", "outmkdir", "outwrite", "mkdir"}

\* C16: every invocation of customizeTool, renderFileTool and
\* fromOutlineTool is suspended at one of its awaits, or has returned a
\* success payload, or has returned an error response carrying one of the
\* error kinds, whatever validation, the engine or the file system did; a
\* task that has returned, with success or failure, keeps nothing of the
\* invocation
C16_StructuredResultNoResidue ==
    /\ \A i \in 1..Len(hist) :
           hist[i].tool \in SaveOutputsTools =>
               \/ /\ hist[i].status = "ok"
                  /\ hist[i].errorType = ""
               \/ /\ hist[i].status = "error"
                  /\ hist[i].errorType \in ErrorKinds
               \/ /\ hist[i].status = "running"
                  /\ \E t \in Tasks : task[t].op = i /\ task[t].pc \in Awaits
    /\ \A t \in Tasks : task[t].pc = "idle" => task[t] = IdleTask

\* an invocation failed in the engine or in the file system, and a later
\* invocation of the same kind by the same agent succeeded
C16_Witness ==
    \E i, j \in 1..Len(hist) :
        /\ i < j
        /\ hist[i].status = "error" /\ hist[i].fault \in {"engine", "mkdir", "write"}
        /\ hist[j].status = "ok"
        /\ hist[j].tool = hist[i].tool /\ hist[j].agent_id = hist[i].agent_id
        /\ hist[i].tool \in SaveOutputsTools

\* the path guard refused the file_path or the output_path of the call
GuardRejected(i) ==
    /\ hist[i].tool = "renderFile"
    /\ hist[i].status = "error"
    /\ hist[i].text \in {"File path must be within", "Output path must be within"}

\* C17: when the path guard refuses the file_path or the legacy output_path
\* of renderFileTool, the error returned is tagged PathSecurityError
C17_GuardRejectionIsPathSecurityError ==
    \A i \in 1..Len(hist) :
        GuardRejected(i) => hist[i].errorType = "PathSecurityError"

\* C18: when the directory creation or one of the file writes of
\* saveOutputs throws inside a tool, also after some of the files were
\* written, the error returned is tagged FileSystemError
C18_SaveFailureIsFileSystemError ==
    \A i \in 1..Len(hist) :
        (hist[i].tool \in SaveOutputsTools /\ hist[i].fault \in {"mkdir", "write"}) =>
            /\ hist[i].status = "error"
            /\ hist[i].errorType = "FileSystemError"


\* the Markdown of the call is above its size ceiling: 1MB given inline to
\* customizeTool, 5MB in the file of renderFileTool
Oversize(i) ==
    \/ hist[i].tool = "customize" /\ byteLength(hist[i].md) > 1024 * 1024
    \/ hist[i].tool = "renderFile" /\ hist[i].size > 5 * 1024 * 1024

\* C19: an operation whose Markdown exceeds its size ceiling fails with
\* ResourceLimitError, the render engine is not called and no artifact is
\* written
C19_OversizeIsResourceLimitError ==
    \A i \in 1..Len(hist) :
        Oversize(i) =>
            /\ hist[i].status = "error"
            /\ hist[i].errorType = "ResourceLimitError"
            /\ hist[i].engine = 0
            /\ hist[i].writes = {}

\* the parsed tree of the call has more than 10,000 nodes or is deeper
\* than 20
OverStructureLimit(i) ==
    /\ hist[i].parsed
    /\ \/ countNodes(hist[i].md) > 10000
       \/ calculateDepth(hist[i].md) > 20

\* C20: once parsed, an operation whose tree has more than 10,000 nodes or
\* a depth above 20 fails with ResourceLimitError and writes no artifact,
\* and one with exactly 10,000 nodes and a depth of at most 20 does not
\* fail unless the engine or the storage does
C20_StructureLimitsEnforced ==
    \A i \in 1..Len(hist) :
        hist[i].tool \in SaveOutputsTools =>
            /\ OverStructureLimit(i) =>
                   /\ hist[i].status = "error"
                   /\ hist[i].errorType = "ResourceLimitError"
                   /\ hist[i].writes = {}
            /\ ( /\ hist[i].parsed
                 /\ countNodes(hist[i].md) = 10000
                 /\ calculateDepth(hist[i].md) <= 20
                 /\ hist[i].status = "error" ) => hist[i].fault # ""


\* a file_path renderFileTool may read: not empty or blank, ending in .md
\* or .markdown in any case of letters, and accepted by the path guard
ReadablePath(i) ==
    LET fp == hist[i].file_path
        n == Len(fp)
    IN  /\ n > 0
        /\ \E k \in 1..n : fp[k] # " "
        /\ n >= 3
        /\ fp[n - 1] = "."
        /\ fp[n - 2] # "/"
        /\ fp[n] \in {"md", "MD", "markdown"}
        /\ validateFilePath(cwd, fp, hist[i].agent_id)

\* C21: renderFileTool reads or stats a file only for a file_path that is
\* not empty, has the extension .md or .markdown in any case and has passed
\* the path guard; for every other file_path it returns an error response
\* without a read, a render or a write
C21_ReadsOnlyValidatedPaths ==
    \A i \in 1..Len(hist) :
        (hist[i].tool = "renderFile" /\ ~ReadablePath(i)) =>
            /\ hist[i].status = "error"
            /\ hist[i].reads = {}
            /\ ~hist[i].parsed
            /\ hist[i].engine = 0
            /\ hist[i].legacy = {}
            /\ hist[i].mkdirs = {}
            /\ hist[i].writes = {}

\* a file with an upper-case extension was read and rendered, and calls
\* with a blank path, a text file and a path outside the roots were refused
C21_Witness ==
    /\ \E i \in 1..Len(hist) :
           /\ hist[i].tool = "renderFile" /\ hist[i].file_path = PathUpper
           /\ hist[i].reads # {} /\ hist[i].status = "ok"
    /\ \E i \in 1..Len(hist) :
           /\ hist[i].tool = "renderFile" /\ hist[i].status = "error"
           /\ hist[i].file_path \in {PathBlank, PathTxt, PathTraversal}
           /\ hist[i].reads = {}


\* task t takes the step in which its fs.mkdir inside ensureAgentDir settles
EnsureAgentDirSettles(t) ==
    /\ task[t].pc \in {"mkdir", "mkdirStructure"}
    /\ task'[t].pc = "idle"

\* in that step: the directory is the one computed at the call, it exists
\* afterwards, and no file below it changes but those the save writes
DirectoryEnsured(t) ==
    LET op == task[t].op
        dir == task[t].dir
    IN  /\ hist'[op].fault # "mkdir"
        /\ hist'[op].dir = dir
        /\ dir = AgentDirOf(StripDisallowed(hist[op].agent_id))
        /\ dir \in dirs'
        /\ \A p \in DOMAIN files :
               (IsWithin(p, dir) /\ p \notin hist'[op].writes) =>
                   p \in DOMAIN files' /\ files'[p] = files[p]

\* C22 as claimed: ensureAgentDir succeeds, with the same path and without
\* a change to the directory's files, when the directory already exists and
\* when another invocation is creating the same directory, in every
\* interleaving; and no step removes a directory
C22_EnsureAgentDirAlwaysSucceeds ==
    [][/\ dirs \subseteq dirs'
       /\ \A t \in Tasks :
              (EnsureAgentDirSettles(t) /\ (task[t].dir \in dirs \/ OthersCreating(t)))
                  => DirectoryEnsured(t)]_vars

\* C22 as amended: ensureAgentDir succeeds, with the same path and without
\* a change to the directory's files, whether or not the directory exists
\* and whether or not another invocation is creating it, unless a regular
\* file occupies the directory's path, and then it fails for every caller;
\* and no step removes a directory
C22_EnsureAgentDirFailsOnlyOnFile ==
    [][/\ dirs \subseteq dirs'
       /\ \A t \in Tasks :
              EnsureAgentDirSettles(t) =>
                  IF mkdirRejects(files, task[t].dir)
                  THEN /\ hist'[task[t].op].fault = "mkdir"
                       /\ task[t].dir \notin dirs
                       /\ files' = files /\ dirs' = dirs
                  ELSE DirectoryEnsured(t)]_vars

\* two invocations for one identifier were suspended on the creation of the
\* directory together and both succeeded, the second finding it in place
C22_Witness ==
    \E i, j \in 1..Len(hist) :
        /\ i # j
        /\ hist[i].status = "ok" /\ hist[j].status = "ok"
        /\ hist[i].raced
        /\ hist[i].dir = hist[j].dir
        /\ hist[i].agent_id = hist[j].agent_id
        /\ hist[i].dir \in dirs \ InitDirs


\* task t takes the step in which its saveOutputs call fails, at fs.mkdir
\* or at one of the writes
SaveOutputsFails(t) ==
    /\ task[t].pc = "mkdir"
    /\ task'[t].pc = "idle"
    /\ hist'[task[t].op].fault \in {"mkdir", "write"}

\* path p holds after the step what it held before it
Untouched(p) ==
    IF p \in DOMAIN files THEN p \in DOMAIN files' /\ files'[p] = files[p]
    ELSE p \notin DOMAIN files'

\* in the failing step of t: the files written are a prefix of svg, html, md
\* that leaves md out, each written file holds its whole content, on stable
\* storage too, the invocation ends in an error without saved paths, and
\* the file written to the legacy output_path is still there
PartialWritesKept(t) ==
    LET me == task[t]
        paths == SavedFiles(me.dir, me.tool, clock)
        title == <<me.tool>> \o ToStr(clock)
        w == hist'[me.op].writes
    IN  /\ hist'[me.op].status = "error"
        /\ hist'[me.op].errorType # ""
        /\ hist'[me.op].saved = {}
        /\ w \in {{}, {paths.svg}, {paths.svg, paths.html}}
        /\ hist'[me.op].fault = "mkdir" => w = {}
        /\ paths.svg \in w =>
               /\ paths.svg \in DOMAIN files' /\ files'[paths.svg] = me.svg
               /\ paths.svg \in DOMAIN stable' /\ stable'[paths.svg] = me.svg
        /\ paths.html \in w =>
               /\ paths.html \in DOMAIN files'
               /\ files'[paths.html] = generateHtml(me.md, title)
               /\ paths.html \in DOMAIN stable'
               /\ stable'[paths.html] = generateHtml(me.md, title)
        /\ \A a \in hist'[me.op].legacy :
               /\ a.target \in DOMAIN files'
               /\ a.target \notin w => files'[a.target] = files[a.target]

ArtifactSetSize(tool) == IF tool = "getStructure" THEN 2 ELSE 3

\* the step chooses the base name of, or writes an artifact of, the save of
\* task t
SaveProgresses(t) ==
    /\ task[t].op # 0
    /\ \/ hist'[task[t].op].stamp # hist[task[t].op].stamp
       \/ hist'[task[t].op].writes # hist[task[t].op].writes

\* C24: in saveOutputs and saveStructureOutputs nothing is suspended after
\* the directory creation: the step that takes the timestamp takes it from
\* the clock as it is once fs.mkdir has settled, writes every file of the
\* set and ends the invocation, while no other invocation moves; so an
\* invocation that has not finished has chosen no base name and written no
\* artifact, and an artifact set is partly written only by an invocation
\* that has ended in an error
C24_SaveIsOneSynchronousStep ==
    [][/\ \A t \in Tasks :
              SaveProgresses(t) =>
                  LET op == task[t].op
                  IN  /\ task[t].pc \in {"mkdir", "mkdirStructure"}
                      /\ task'[t].pc = "idle"
                      /\ hist'[op].stamp = clock
                      /\ \A u \in Tasks \ {t} : task'[u] = task[u]
                      /\ hist'[op].status \in {"ok", "error"}
                      /\ hist'[op].status = "ok" =>
                             /\ Cardinality(hist'[op].saved) = ArtifactSetSize(hist'[op].tool)
                             /\ hist'[op].saved \subseteq DOMAIN files'
                             /\ hist'[op].writes = {Realpath(p) : p \in hist'[op].saved}
       /\ \A i \in 1..Len(hist) :
              /\ hist[i].status = "running" => hist[i].writes = {} /\ hist[i].stamp = 0
              /\ (hist[i].writes # {}
                    /\ Cardinality(hist[i].writes) < ArtifactSetSize(hist[i].tool))
                     => hist[i].status = "error"]_vars

\* two invocations were suspended on the directory creation together; the
\* clock advanced, and each then wrote its whole set under the timestamp of
\* its own resumption: a set of three and a set of two, all on disk
C24_Witness ==
    \E i, j \in 1..Len(hist) :
        /\ hist[i].tool \in SaveOutputsTools /\ hist[j].tool = "getStructure"
        /\ hist[i].status = "ok" /\ hist[j].status = "ok"
        /\ hist[i].raced \/ hist[j].raced
        /\ hist[i].stamp # hist[j].stamp
        /\ Cardinality(hist[i].saved) = 3 /\ Cardinality(hist[j].saved) = 2
        /\ hist[i].saved \cup hist[j].saved \subseteq DOMAIN files

====
